---- MODULE Spec2Model ----
(***************************************************************************)
(* Model of pyedgeon (src/pyedgeon/pyedgeon.py): the Pyedgeon object, its  *)
(* pipeline methods check_length, estimate_font_size, draw_clear,          *)
(* get_fontsize, draw_frame, stamp, alpha_to_white, and the Pillow          *)
(* primitives they call (text rasterization, getbbox, rotate, paste).      *)
(*                                                                         *)
(* An object is a record of its attributes.  Every method is an operator   *)
(* from the object record (and the rasterizer) to the object record after  *)
(* the call; the actions apply the methods to the objects of the state.    *)
(* An attribute that is None is the empty tuple; an integer attribute that *)
(* is set to v is the one-element tuple <<v>>.                             *)
(***************************************************************************)
EXTENDS Integers, Sequences, FiniteSets, TLC

VARIABLES obj,        \* object id -> record of the object's attributes
          pc,         \* object id -> the last pipeline method that returned
          prev,       \* object id -> the object's attributes before that call
          call,       \* object id -> outcome of the last method call
          rasterizer  \* the font / text rendering capability (deterministic)

vars == <<obj, pc, prev, call, rasterizer>>

None == <<>>
Some(v) == <<v>>
Val(o) == o[1]

Min(a, b) == IF a < b THEN a ELSE b
Max(a, b) == IF a > b THEN a ELSE b
Abs(a) == IF a < 0 THEN -a ELSE a

IsPrefix(short, long) ==
    /\ Len(short) <= Len(long)
    /\ \A i \in 1..Len(short) : short[i] = long[i]

\* Python's int(): truncation toward zero of the rational num/den, den > 0.
TruncDiv(num, den) == IF num >= 0 THEN num \div den ELSE -((-num) \div den)

(***************************************************************************)
(* Bounds of the model.                                                    *)
(***************************************************************************)
MaxLen == 16          \* longest text drawn for the text methods
MaxWidthNum == 12     \* largest glyph-width factor of the rasterizer
MaxRepeat == 2        \* most calls of one method in a row
CanvasSide == 8       \* side of the canvas of the image pipeline
StampSide == 2        \* side of the buffers stamp is applied to on its own
EdgeSpread == 2       \* halves around each bound the numeric arguments take
MaxInitLen == 3       \* longest text given to the constructor
MaxNameLen == 4       \* longest file name given to the constructor
StretchSide == 12     \* side of the canvas the stretch loop is stepped on

(***************************************************************************)
(* Program constants.                                                      *)
(***************************************************************************)
DefaultImgSide == 1024
DefaultCharmax == 22
DefaultCropX == 14
DefaultCropY == 5
DefaultThreshold == 116
GuessFloor == 60
GuessCeil == 220
WindowHalf == 30
WindowFloor == 10
WindowCeil == 350
IterCap == 15
FallbackDrop == 20
FallbackMin == 20
FallbackStep == 5
White == <<255, 255, 255>>
Black == <<0, 0, 0>>

(***************************************************************************)
(* estimate_font_size: per-character width weights.                        *)
(***************************************************************************)
Digits == {"0", "1", "2", "3", "4", "5", "6", "7", "8", "9"}
Bucket37 == {"l", "i", "j", "|", "'", " "}
Bucket50 == {"!", "[", "]", "f", "I", ".", ",", ":", ";", "/", "\\", "t"}
\* the grave accent (ASCII 96) is written "GRAVE": the lexer rejects it in a string
Bucket60 == {"GRAVE", "-", "(", ")", "{", "}", "r", "\""}
Bucket85 == {"*", "^", "z", "c", "s", "J", "k", "v", "x", "y"}
Bucket95 == {"a", "e", "b", "d", "h", "n", "o", "p", "q", "u", "g", "#", "$",
             "L", "+", "<", ">", "=", "?", "_", "~", "F", "Z", "T"} \cup Digits
Bucket112 == {"B", "S", "P", "E", "A", "K", "V", "X", "Y", "&", "U", "w", "N",
              "R", "C", "H", "D"}
Bucket135 == {"Q", "G", "O", "M", "m", "%", "W", "@"}

CharWeight(s) ==
    IF s \in Bucket37 THEN 37
    ELSE IF s \in Bucket50 THEN 50
    ELSE IF s \in Bucket60 THEN 60
    ELSE IF s \in Bucket85 THEN 85
    ELSE IF s \in Bucket95 THEN 95
    ELSE IF s \in Bucket112 THEN 112
    ELSE IF s \in Bucket135 THEN 135
    ELSE 50

RECURSIVE TextSize(_)
TextSize(text) ==
    IF text = <<>> THEN 0 ELSE CharWeight(Head(text)) + TextSize(Tail(text))

\* int(280 - 18.7 * (size * 6 / 1000.0)) = int((2800000 - 1122 * size) / 10000)
RawGuess(text) == TruncDiv(2800000 - 1122 * TextSize(text), 10000)

\* mutant: the lower clamp is missing
ClampGuessNoFloor(g) == Min(g, GuessCeil)

ClampGuess(g) == Min(Max(g, GuessFloor), GuessCeil)

estimate_font_size(self) ==
    [self EXCEPT !.font_size_guess = Some(ClampGuess(RawGuess(self.illusion_text)))]

(***************************************************************************)
(* check_length                                                            *)
(***************************************************************************)
\* the Python slice text[:n]
Truncate(text, n) ==
    IF n >= 0 THEN SubSeq(text, 1, Min(Len(text), n))
    ELSE SubSeq(text, 1, Max(Len(text) + n, 0))

\* mutant: the truncation to a hard-coded 20 characters of the first version
check_length_text_20(self) ==
    IF Len(self.illusion_text) > self.charmax
    THEN Truncate(self.illusion_text, 20)
    ELSE self.illusion_text

check_length_text(self) ==
    IF Len(self.illusion_text) > self.charmax
    THEN Truncate(self.illusion_text, self.charmax)
    ELSE self.illusion_text

check_length(self) == [self EXCEPT !.illusion_text = check_length_text(self)]

\* the ValidationError of check_length: the text is empty after truncation
check_length_raises(self) == Len(check_length_text(self)) = 0

(***************************************************************************)
(* The rasterizer: ImageFont.truetype, ImageDraw.text and getbbox of the   *)
(* inverted canvas.  A rasterizer is a record                              *)
(*   wnum, wden : the rendered text is (wnum * size) \div wden pixels wide *)
(*   failMode   : "none", "from" (truetype raises OSError at every size    *)
(*                >= failSize) or "at" (only at failSize)                  *)
(*   failSize   : the size failMode refers to                              *)
(***************************************************************************)
FontLoads(rz, size) ==
    CASE rz.failMode = "none" -> TRUE
      [] rz.failMode = "from" -> size < rz.failSize
      [] rz.failMode = "at"   -> size # rz.failSize

IsBlankText(text) == \A i \in 1..Len(text) : text[i] = " "

TextWidth(rz, size) == (rz.wnum * size) \div rz.wden

\* ImageOps.invert(raw_img).getbbox(): the box of the pixels that are not
\* white, after the text was drawn at (crop_width_x, crop_width_y) on a
\* canvas of img_side x img_side filled with background_color.
InvertedBBox(self, rz, size) ==
    LET N  == self.img_side
        x0 == self.crop_width_x
        y0 == self.crop_width_y
        x1 == Min(x0 + TextWidth(rz, size), N)
        y1 == Min(y0 + size, N)
    IN  IF self.background_color # White THEN <<0, 0, N, N>>
        ELSE IF self.text_color = White \/ IsBlankText(self.illusion_text) THEN None
        ELSE IF x1 <= x0 \/ y1 <= y0 THEN None
        ELSE <<x0, y0, x1, y1>>

PadBBox(self, bbox) ==
    <<bbox[1] - self.crop_width_x, bbox[2] - self.crop_width_y,
      bbox[3] + self.crop_width_x, bbox[4] + self.crop_width_y>>

BBoxWidth(bbox) == bbox[3] - bbox[1]

MaxTextWidth(self) == self.img_side - 2 * self.crop_width_x

Fits(self, boundingbox) == BBoxWidth(boundingbox) < MaxTextWidth(self)

NoProbe == [font |-> None, bbox |-> None, fits |-> FALSE]

\* the inner function test_font_size of get_fontsize: the IOError or OSError
\* of ImageFont.truetype (FileNotFoundError and PermissionError are OSErrors)
\* is caught and the probe returns None, None, False
test_font_size(self, rz, font_size) ==
    IF ~FontLoads(rz, font_size) THEN NoProbe
    ELSE LET bbox == InvertedBBox(self, rz, font_size)
         IN  IF bbox = None THEN NoProbe
             ELSE LET boundingbox == PadBBox(self, bbox)
                  IN  [font |-> Some(font_size), bbox |-> boundingbox,
                       fits |-> Fits(self, boundingbox)]

(***************************************************************************)
(* get_fontsize: the binary search, the linear fallback and the result.    *)
(* A search state is a record min_size, max_size, best_size, best_font,    *)
(* best_bbox, iterations, probes (the sizes probed, in order).             *)
(***************************************************************************)
WindowMin(guess) == Max(guess - WindowHalf, WindowFloor)
WindowMax(guess) == Min(guess + WindowHalf, WindowCeil)

SearchInit(guess) ==
    [min_size |-> WindowMin(guess), max_size |-> WindowMax(guess),
     best_size |-> WindowMin(guess), best_font |-> None, best_bbox |-> None,
     iterations |-> 0, probes |-> <<>>]

\* mutant: a fitting size lowers max_size instead of raising min_size
BinaryUpdateDown(st, mid_size, t) ==
    IF t.font = None
    THEN [st EXCEPT !.iterations = @ + 1, !.probes = Append(@, mid_size),
                    !.max_size = mid_size - 1]
    ELSE IF t.fits
    THEN [st EXCEPT !.iterations = @ + 1, !.probes = Append(@, mid_size),
                    !.best_size = mid_size, !.best_font = t.font,
                    !.best_bbox = t.bbox, !.max_size = mid_size - 1]
    ELSE [st EXCEPT !.iterations = @ + 1, !.probes = Append(@, mid_size),
                    !.max_size = mid_size - 1]

\* mutant: a size that does not fit stays in the window
BinaryUpdateNoShrink(st, mid_size, t) ==
    IF t.font = None
    THEN [st EXCEPT !.iterations = @ + 1, !.probes = Append(@, mid_size),
                    !.max_size = mid_size - 1]
    ELSE IF t.fits
    THEN [st EXCEPT !.iterations = @ + 1, !.probes = Append(@, mid_size),
                    !.best_size = mid_size, !.best_font = t.font,
                    !.best_bbox = t.bbox, !.min_size = mid_size + 1]
    ELSE [st EXCEPT !.iterations = @ + 1, !.probes = Append(@, mid_size),
                    !.max_size = mid_size]

\* mutant: after a probe that failed the search goes on with larger sizes
BinaryUpdateFailUp(st, mid_size, t) ==
    IF t.font = None
    THEN [st EXCEPT !.iterations = @ + 1, !.probes = Append(@, mid_size),
                    !.min_size = mid_size + 1]
    ELSE IF t.fits
    THEN [st EXCEPT !.iterations = @ + 1, !.probes = Append(@, mid_size),
                    !.best_size = mid_size, !.best_font = t.font,
                    !.best_bbox = t.bbox, !.min_size = mid_size + 1]
    ELSE [st EXCEPT !.iterations = @ + 1, !.probes = Append(@, mid_size),
                    !.max_size = mid_size - 1]

\* what one iteration of the while loop does with the probe t of mid_size
BinaryUpdate(st, mid_size, t) ==
    IF t.font = None
    THEN [st EXCEPT !.iterations = @ + 1, !.probes = Append(@, mid_size),
                    !.max_size = mid_size - 1]
    ELSE IF t.fits
    THEN [st EXCEPT !.iterations = @ + 1, !.probes = Append(@, mid_size),
                    !.best_size = mid_size, !.best_font = t.font,
                    !.best_bbox = t.bbox, !.min_size = mid_size + 1]
    ELSE [st EXCEPT !.iterations = @ + 1, !.probes = Append(@, mid_size),
                    !.max_size = mid_size - 1]

MidSize(st) == (st.min_size + st.max_size) \div 2

\* one iteration of the while loop
BinaryStep(self, rz, st) ==
    BinaryUpdate(st, MidSize(st), test_font_size(self, rz, MidSize(st)))

RECURSIVE BinarySearch(_, _, _)
BinarySearch(self, rz, st) ==
    IF st.min_size <= st.max_size /\ st.iterations < IterCap
    THEN BinarySearch(self, rz, BinaryStep(self, rz, st))
    ELSE st

\* mutant: the lowered guess without its floor of 20
FallbackGuessNoFloor(guess) == guess - FallbackDrop

FallbackGuess(guess) == Max(guess - FallbackDrop, FallbackMin)

\* one iteration of the fallback loop with the probe t of size: the search
\* state after it, and whether the loop breaks
FallbackFound(t) == t.font # None /\ t.fits

\* mutant: the fallback forgets to keep the bounding box of the size it found
FallbackUpdateNoBBox(st, size, t) ==
    IF FallbackFound(t)
    THEN [st EXCEPT !.probes = Append(@, size), !.best_size = size,
                    !.best_font = t.font]
    ELSE [st EXCEPT !.probes = Append(@, size)]

FallbackUpdate(st, size, t) ==
    IF FallbackFound(t)
    THEN [st EXCEPT !.probes = Append(@, size), !.best_size = size,
                    !.best_font = t.font, !.best_bbox = t.bbox]
    ELSE [st EXCEPT !.probes = Append(@, size)]

\* for size in range(font_size_guess, 10, -5): probe, stop at the first fit
RECURSIVE FallbackScan(_, _, _, _)
FallbackScan(self, rz, st, size) ==
    IF size <= WindowFloor \/ st.best_font # None THEN st
    ELSE FallbackScan(self, rz,
                      FallbackUpdate(st, size, test_font_size(self, rz, size)),
                      size - FallbackStep)

\* An exception is a record: its type, the text and the canvas side its
\* message holds (None when the message does not hold them) and the type of
\* the exception it was raised from.
NoError == [type |-> "None", text |-> None, img_side |-> None, cause |-> "None"]

\* raise RuntimeError(f"Could not find suitable font size for text
\* '{self.illusion_text}'. Try reducing text length or increasing img_side.")
CouldNotFind(self) ==
    [type |-> "RuntimeError", text |-> Some(self.illusion_text),
     img_side |-> None, cause |-> "None"]

\* the except clauses of get_fontsize on an exception e raised in its try
\* block: the messages name font_path, or only the type of e
ExceptClauses(self, e) ==
    CASE e.type \in {"FileNotFoundError", "PermissionError"} ->
           [type |-> "FileOperationError", text |-> None, img_side |-> None,
            cause |-> e.type]
      [] e.type \in {"KeyboardInterrupt", "SystemExit", "MemoryError"} -> e
      [] OTHER ->
           [type |-> "RuntimeError", text |-> None, img_side |-> None,
            cause |-> e.type]

\* the end of get_fontsize, from the search state fin: raise or return
GetFontsizeResult(self1, fin, path) ==
    IF fin.best_font = None
    THEN [self |-> self1, ret |-> None,
          raised |-> ExceptClauses(self1, CouldNotFind(self1)).type,
          error |-> ExceptClauses(self1, CouldNotFind(self1)),
          search |-> fin, path |-> "none"]
    ELSE [self |-> [self1 EXCEPT !.font_size = Some(fin.best_size),
                                 !.font = fin.best_font,
                                 !.boundingbox = fin.best_bbox],
          ret |-> <<fin.best_size, fin.best_bbox>>, raised |-> "None",
          error |-> NoError, search |-> fin, path |-> path]

\* mutant: the guess is lowered after every search, also one that found a size
AfterBinarySearchLowering(self, rz, bin) ==
    IF bin.best_font = None
    THEN GetFontsizeResult(
             [self EXCEPT !.font_size_guess = Some(FallbackGuess(Val(@)))],
             FallbackScan(self, rz, bin, FallbackGuess(Val(self.font_size_guess))),
             "fallback")
    ELSE GetFontsizeResult(
             [self EXCEPT !.font_size_guess = Some(FallbackGuess(Val(@)))],
             bin, "binary")

\* get_fontsize after the binary search ended in the search state bin
AfterBinarySearch(self, rz, bin) ==
    IF bin.best_font = None
    THEN GetFontsizeResult(
             [self EXCEPT !.font_size_guess = Some(FallbackGuess(Val(@)))],
             FallbackScan(self, rz, bin, FallbackGuess(Val(self.font_size_guess))),
             "fallback")
    ELSE GetFontsizeResult(self, bin, "binary")

\* The outcome of get_fontsize: the object after the call, the value
\* returned (None when it raised), the exception raised ("None" when it
\* returned), the search state at the end and the path that decided.
get_fontsize(self, rz) ==
    AfterBinarySearch(self, rz,
                      BinarySearch(self, rz, SearchInit(Val(self.font_size_guess))))

(***************************************************************************)
(* Images.  An image of side N is a function from Pixels(N), the pairs     *)
(* <<x, y>> of column and row, to RGBA pixels <<r, g, b, a>>.              *)
(***************************************************************************)
Pixels(N) == (0..(N - 1)) \X (0..(N - 1))

RGBA(color, alpha) == color \o <<alpha>>
Alpha(pixel) == pixel[4]
Green(pixel) == pixel[2]

\* Image.new("RGBA", size, color) with an RGB color: alpha is 255
NewImage(N, color) == [p \in Pixels(N) |-> RGBA(color, 255)]

draw_clear(self) ==
    [self EXCEPT !.img = NewImage(self.img_side, self.background_color),
                 !.circle_img = NewImage(self.img_side, self.background_color),
                 !.full_image = NewImage(self.img_side, self.background_color)]

(***************************************************************************)
(* draw_frame, first half: the rendered text, cropped to the bounding box  *)
(* and resized to the canvas, as the rasterizer delivers it.  The          *)
(* rasterizer's fields cols, rows, level give the coverage of the resized  *)
(* text: level 2 (solid text colour) or 1 (an anti-aliased half blend) at  *)
(* the pixels of the columns cols and rows rows, 0 (background) elsewhere. *)
(***************************************************************************)
Coverage(rz, p) == IF p[1] \in rz.cols /\ p[2] \in rz.rows THEN rz.level ELSE 0

HalfBlend(c1, c2) == [i \in 1..3 |-> (c1[i] + c2[i]) \div 2]

ScaledPixel(self, rz, p) ==
    CASE Coverage(rz, p) = 0 -> self.background_color
      [] Coverage(rz, p) = 1 -> HalfBlend(self.text_color, self.background_color)
      [] Coverage(rz, p) = 2 -> self.text_color

\* self.img after self.img.paste(self.scaled_img, (0, 0))
ScaledImage(self, rz) ==
    [p \in Pixels(self.img_side) |-> RGBA(ScaledPixel(self, rz, p), 255)]

\* mutant: a pixel as bright as the threshold counts as text
ThresholdPixelInclusive(self, pixel) ==
    IF Green(pixel) > self.darkness_threshold
    THEN RGBA(self.background_color, 0)
    ELSE RGBA(self.text_color, 255)

\* the darkness threshold on the green channel
ThresholdPixel(self, pixel) ==
    IF Green(pixel) >= self.darkness_threshold
    THEN RGBA(self.background_color, 0)
    ELSE RGBA(self.text_color, 255)

Threshold(self, image) ==
    [p \in Pixels(self.img_side) |-> ThresholdPixel(self, image[p])]

(***************************************************************************)
(* draw_frame, second half: the stretch along the circle.  With N the      *)
(* side and radius = N / 2, column x has distance |x - radius| from the    *)
(* centre and Ysize = 2 * sqrt(radius^2 - (x - radius)^2) = sqrt(YsizeSq). *)
(***************************************************************************)
InCircleColumn(N, x) == Abs(2 * x - N) < N

YsizeSq(N, x) == 4 * x * (N - x)

\* ceil(sqrt(n)) for 0 <= n <= N * N: the number of s in 0..N with s * s < n
CeilSqrt(n, N) == Cardinality({s \in 0..N : s * s < n})

\* int((img_side - Ysize) / 2.)
Yoffset(N, x) == (N - CeilSqrt(YsizeSq(N, x), N)) \div 2

\* int((Ysize / img_side) * y) = floor(sqrt(YsizeSq * y * y) / N): the number
\* of u in 1..y with (u * N)^2 <= YsizeSq * y^2
Ystretch(N, x, y) ==
    Cardinality({u \in 1..y : u * u * N * N <= YsizeSq(N, x) * y * y})

Ydest(N, x, y) == Yoffset(N, x) + Ystretch(N, x, y)

\* mutant: the clip at the radius itself, without the margin of 2
OutsideCircleNoMargin(N, x, y) ==
    (2 * x - N) * (2 * x - N) + (2 * y - N) * (2 * y - N) >= N * N

\* sqrt((x - radius)**2 + (y - radius)**2) >= radius - 2
OutsideCircle(N, x, y) ==
    \/ N - 4 <= 0
    \/ (2 * x - N) * (2 * x - N) + (2 * y - N) * (2 * y - N) >= (N - 4) * (N - 4)

\* mutant: the destination indexed as [Y, x]
CopyToTransposed(circle, image, N, x, y, Y) ==
    IF Y >= 0 /\ Y < N
    THEN [circle EXCEPT ![<<Y, x>>] = image[<<x, y>>]]
    ELSE circle

\* mutant: a pixel of text is not overwritten by a transparent one
CopyToKeepText(circle, image, N, x, y, Y) ==
    IF Y >= 0 /\ Y < N /\ ~(Alpha(circle[<<x, Y>>]) = 255 /\ Alpha(image[<<x, y>>]) = 0)
    THEN [circle EXCEPT ![<<x, Y>>] = image[<<x, y>>]]
    ELSE circle

\* the body of the inner loop at (x, y): the copy to row Y, then the clip
CopyTo(circle, image, N, x, y, Y) ==
    IF Y >= 0 /\ Y < N
    THEN [circle EXCEPT ![<<x, Y>>] = image[<<x, y>>]]
    ELSE circle

StretchCopy(circle, image, N, x, y) ==
    CopyTo(circle, image, N, x, y, Ydest(N, x, y))

StretchClip(circle, N, background, x, y) ==
    IF OutsideCircle(N, x, y)
    THEN [circle EXCEPT ![<<x, y>>] = RGBA(background, 0)]
    ELSE circle

StretchStep(circle, image, N, background, x, y) ==
    IF InCircleColumn(N, x)
    THEN StretchClip(StretchCopy(circle, image, N, x, y), N, background, x, y)
    ELSE circle

\* the inner loop of column x, from row y on
RECURSIVE StretchColumnFrom(_, _, _, _, _, _)
StretchColumnFrom(circle, image, N, background, x, y) ==
    IF circle = None \/ y >= N THEN circle
    ELSE StretchColumnFrom(StretchStep(circle, image, N, background, x, y),
                           image, N, background, x, y + 1)

\* the outer loop, from column x on
RECURSIVE StretchFrom(_, _, _, _, _)
StretchFrom(circle, image, N, background, x) ==
    IF circle = None \/ x >= N THEN circle
    ELSE StretchFrom(StretchColumnFrom(circle, image, N, background, x, 0),
                     image, N, background, x + 1)

\* circle_img.paste(img, (0, 0)) and the stretch loops
Stretch(self, image) ==
    StretchFrom(image, image, self.img_side, self.background_color, 0)

draw_frame(self, rz) ==
    LET image == Threshold(self, ScaledImage(self, rz))
    IN  [self EXCEPT !.img = image, !.circle_img = Stretch(self, image)]

(***************************************************************************)
(* stamp: Image.rotate and Image.paste with the rotated image as mask.     *)
(***************************************************************************)
\* Image.transpose(ROTATE_90): a quarter turn counter-clockwise
Rotate90(image, N) == [p \in Pixels(N) |-> image[<<N - 1 - p[2], p[1]>>]]

\* circle_img.rotate(i * 180 / num_rotations) for the angles 0 and 90
\* (the others resample, which is not modelled: the model stamps 1 or 2
\* rotations)
Rotate(image, N, i, num_rotations) ==
    IF i = 0 THEN image
    ELSE IF 2 * i = num_rotations THEN Rotate90(image, N)
    ELSE image

\* mutant: the blend divided by 256 without rounding
Div255Truncating(a) == a \div 256

\* Pillow's 8-bit blend of paste: (in1 * (255 - mask) + in2 * mask) / 255
Div255(a) == ((a + 128) + ((a + 128) \div 256)) \div 256
Blend8(mask, in1, in2) == Div255(in1 * (255 - mask) + in2 * mask)

PastePixel(dst, src, mask) == [b \in 1..4 |-> Blend8(mask, dst[b], src[b])]

\* mutant: the paste without the mask
PasteUnmasked(full, this_circle, N) == this_circle

\* full_image.paste(this_circle, (0, 0), this_circle)
Paste(full, this_circle, N) ==
    [p \in Pixels(N) |-> PastePixel(full[p], this_circle[p], Alpha(this_circle[p]))]

\* the loop of stamp with the rotation indices taken from the sequence
\* `order`, from its k-th element on
RECURSIVE StampInOrder(_, _, _, _, _, _)
StampInOrder(full, circle, N, num_rotations, order, k) ==
    IF full = None \/ k > Len(order) THEN full
    ELSE StampInOrder(Paste(full, Rotate(circle, N, order[k], num_rotations), N),
                      circle, N, num_rotations, order, k + 1)

\* mutant: the rotations composited in descending index
RECURSIVE StampFromDescending(_, _, _, _, _)
StampFromDescending(full, circle, N, num_rotations, i) ==
    IF full = None \/ i >= num_rotations THEN full
    ELSE StampFromDescending(
             Paste(full, Rotate(circle, N, num_rotations - 1 - i, num_rotations), N),
             circle, N, num_rotations, i + 1)

\* the loop of stamp from rotation i on
RECURSIVE StampFrom(_, _, _, _, _)
StampFrom(full, circle, N, num_rotations, i) ==
    IF full = None \/ i >= num_rotations THEN full
    ELSE StampFrom(Paste(full, Rotate(circle, N, i, num_rotations), N),
                   circle, N, num_rotations, i + 1)

stamp(self) ==
    [self EXCEPT !.full_image =
        StampFrom(self.full_image, self.circle_img, self.img_side,
                  self.num_rotations, 0)]

(***************************************************************************)
(* alpha_to_white                                                          *)
(***************************************************************************)
\* mutant: every pixel is rewritten, the opaque ones too
FlattenPixelAll(self, pixel) == RGBA(self.background_color, 255)

\* mutant: the background written without making it opaque
FlattenPixelNoAlpha(self, pixel) ==
    IF Alpha(pixel) = 0 THEN RGBA(self.background_color, 0) ELSE pixel

FlattenPixel(self, pixel) ==
    IF Alpha(pixel) = 0 THEN RGBA(self.background_color, 255) ELSE pixel

alpha_to_white(self) ==
    [self EXCEPT !.full_image =
        [p \in Pixels(self.img_side) |-> FlattenPixel(self, self.full_image[p])]]

(***************************************************************************)
(* create: the pipeline as one call (save_img, which writes the file, is   *)
(* left out).  The outcome is the object after the call and the exception  *)
(* raised ("None" when create returns).                                    *)
(***************************************************************************)
\* mutant: a guess the object already has is kept
CreateGuessKept(self) ==
    IF self.font_size_guess = None THEN estimate_font_size(self) ELSE self

\* self.estimate_font_size() in create
CreateGuess(self) == estimate_font_size(self)

\* create from get_fontsize on
CreateRender(r, rz) ==
    IF r.raised # "None" THEN [self |-> r.self, raised |-> r.raised]
    ELSE [self |-> alpha_to_white(stamp(draw_frame(r.self, rz))),
          raised |-> "None"]

create(self, rz) ==
    IF check_length_raises(self)
    THEN [self |-> check_length(self), raised |-> "ValidationError"]
    ELSE CreateRender(get_fontsize(draw_clear(CreateGuess(check_length(self))), rz),
                      rz)

(***************************************************************************)
(* The object after __init__ (validated), and the calls of its methods.    *)
(***************************************************************************)
NewObject(text, charmax, side, crop_x, crop_y, fg, bg, num_rotations) ==
    [illusion_text |-> text, charmax |-> charmax, img_side |-> side,
     crop_width_x |-> crop_x, crop_width_y |-> crop_y,
     darkness_threshold |-> DefaultThreshold,
     text_color |-> fg, background_color |-> bg,
     num_rotations |-> num_rotations,
     font_size_guess |-> None, font_size |-> None, font |-> None,
     boundingbox |-> None, img |-> None, circle_img |-> None,
     full_image |-> None]

(***************************************************************************)
(* __init__ and _validate_inputs.  A numeric argument is a record          *)
(*   kind  : "num" (an int, or a float with fraction .0 or .5), "nan",     *)
(*           "inf" (the floats nan and inf) or "str" (not a number)        *)
(*   twice : twice the value of a "num"                                    *)
(* and a colour argument a record kind ("tuple" or "str") and items (the   *)
(* numeric arguments it holds).  A validator yields the exception it       *)
(* raises ("None" when it returns) and the value it returns.               *)
(***************************************************************************)
Num(twice) == [kind |-> "num", twice |-> twice]
Whole(n) == Num(2 * n)
NaN == [kind |-> "nan", twice |-> 0]
Inf == [kind |-> "inf", twice |-> 0]
NonNumeric == [kind |-> "str", twice |-> 0]

Color(items) == [kind |-> "tuple", items |-> items]
NonTuple == [kind |-> "str", items |-> <<>>]

\* the min_val and max_val _validate_inputs passes to _validate_int
IntBounds ==
    [num_rotations |-> <<1, 360>>, img_side |-> <<64, 8192>>,
     charmax |-> <<1, 1000>>, crop_width_x |-> <<0, 500>>,
     crop_width_y |-> <<0, 500>>, darkness_threshold |-> <<0, 255>>]

ColorBounds == <<0, 255>>

Valid(value) == [raised |-> "None", value |-> value]
Invalid(error) == [raised |-> error, value |-> None]

\* _validate_int: int(nan) and int(inf) raise ValueError and OverflowError,
\* which it turns into ValidationError
validate_int(value, min_val, max_val) ==
    IF value.kind = "str" THEN Invalid("ValidationError")
    ELSE IF value.kind \in {"nan", "inf"} THEN Invalid("ValidationError")
    ELSE IF TruncDiv(value.twice, 2) < min_val THEN Invalid("ValidationError")
    ELSE IF TruncDiv(value.twice, 2) > max_val THEN Invalid("ValidationError")
    ELSE Valid(TruncDiv(value.twice, 2))

\* one component of _validate_color: int(component) is not guarded
validate_component(component) ==
    CASE component.kind = "str" -> Invalid("ValidationError")
      [] component.kind = "nan" -> Invalid("ValueError")
      [] component.kind = "inf" -> Invalid("OverflowError")
      [] OTHER ->
           IF \/ TruncDiv(component.twice, 2) < ColorBounds[1]
              \/ TruncDiv(component.twice, 2) > ColorBounds[2]
           THEN Invalid("ValidationError")
           ELSE Valid(TruncDiv(component.twice, 2))

\* the exception of the first of the results that raised, "None" if none did
RECURSIVE FirstRaised(_)
FirstRaised(results) ==
    IF results = <<>> THEN "None"
    ELSE IF Head(results).raised # "None" THEN Head(results).raised
    ELSE FirstRaised(Tail(results))

validate_color(color) ==
    IF color.kind # "tuple" THEN Invalid("ValidationError")
    ELSE IF Len(color.items) # 3 THEN Invalid("ValidationError")
    ELSE LET validated == [i \in 1..3 |-> validate_component(color.items[i])]
         IN  IF FirstRaised(validated) # "None"
             THEN Invalid(FirstRaised(validated))
             ELSE Valid([i \in 1..3 |-> validated[i].value])

\* str.upper() on the characters of the model's texts
UpperChar(c) == IF c = "a" THEN "A" ELSE c
Upper(text) == [i \in 1..Len(text) |-> UpperChar(text[i])]

\* the characters str.strip() strips
IsWhitespace(text) == \A i \in 1..Len(text) : text[i] \in {" ", "\t"}

\* the characters _validate_text removes: "RLO" stands for the direction
\* marks u202e, u202d, u200e, u200f and ufeff; "NUL" for the character 0
DangerousUnicode == {"RLO"}

RemoveAll(text, chars) == SelectSeq(text, LAMBDA c : c \notin chars)

validate_text(text) ==
    IF Len(text) > 10000 THEN Invalid("ValidationError")
    ELSE IF text = <<>> \/ IsWhitespace(text) THEN Invalid("ValidationError")
    ELSE IF \E i \in 1..Len(text) : text[i] = "NUL" THEN Invalid("ValidationError")
    ELSE Valid(RemoveAll(text, DangerousUnicode))

\* the font paths of the model: "" (empty), a font file, a file that is not
\* a font and a font file of more than 10 MB
AllowedFontPaths == {"font.ttf", "huge.ttf"}

validate_font_path(font_path) ==
    IF font_path = "" THEN Invalid("ValidationError")
    ELSE IF font_path \notin AllowedFontPaths THEN Invalid("ValidationError")
    ELSE IF font_path = "huge.ttf" THEN Invalid("ValidationError")
    ELSE Valid(font_path)

AllowedExtensions == {".png", ".jpg", ".jpeg", ".gif", ".bmp", ".tiff"}

LowerExt(ext) == IF ext = ".PNG" THEN ".png" ELSE ext

validate_extension(ext) ==
    IF ext = "" THEN Invalid("ValidationError")
    ELSE IF LowerExt(ext) \notin AllowedExtensions THEN Invalid("ValidationError")
    ELSE Valid(LowerExt(ext))

\* the results of the validations of _validate_inputs, in its order
validate_inputs(args, text) ==
    [text_color |-> validate_color(args.text_color),
     background_color |-> validate_color(args.background_color),
     num_rotations |-> validate_int(args.num_rotations,
                           IntBounds.num_rotations[1], IntBounds.num_rotations[2]),
     img_side |-> validate_int(args.img_side,
                           IntBounds.img_side[1], IntBounds.img_side[2]),
     charmax |-> validate_int(args.charmax,
                           IntBounds.charmax[1], IntBounds.charmax[2]),
     crop_width_x |-> validate_int(args.crop_width_x,
                           IntBounds.crop_width_x[1], IntBounds.crop_width_x[2]),
     crop_width_y |-> validate_int(args.crop_width_y,
                           IntBounds.crop_width_y[1], IntBounds.crop_width_y[2]),
     darkness_threshold |-> validate_int(args.darkness_threshold,
                           IntBounds.darkness_threshold[1],
                           IntBounds.darkness_threshold[2]),
     illusion_text |-> validate_text(text),
     font_path |-> validate_font_path(args.font_path),
     file_ext |-> validate_extension(args.file_ext)]

ValidationOrder ==
    <<"text_color", "background_color", "num_rotations", "img_side", "charmax",
      "crop_width_x", "crop_width_y", "darkness_threshold", "illusion_text",
      "font_path", "file_ext">>

\* mutant: file_name defaults to the text as the object keeps it
DefaultFileNameOfObject(args, text) ==
    IF args.file_name # None THEN Val(args.file_name) ELSE text

\* self.file_name: the file_name argument, or the illusion_text argument
DefaultFileName(args, text) ==
    IF args.file_name # None THEN Val(args.file_name) ELSE args.illusion_text

\* Pyedgeon(**args): the exception __init__ raises ("None" when it returns)
\* and the object it returns
Pyedgeon(args) ==
    LET text == IF args.upper_case THEN Upper(args.illusion_text)
                ELSE args.illusion_text
        v == validate_inputs(args, text)
        raised == FirstRaised([i \in 1..Len(ValidationOrder) |-> v[ValidationOrder[i]]])
    IN  IF raised # "None" THEN [raised |-> raised, self |-> None]
        ELSE [raised |-> "None",
              self |->
                [NewObject(v.illusion_text.value, v.charmax.value, v.img_side.value,
                           v.crop_width_x.value, v.crop_width_y.value,
                           v.text_color.value, v.background_color.value,
                           v.num_rotations.value)
                 EXCEPT !.darkness_threshold = v.darkness_threshold.value]
                @@ [file_name |-> DefaultFileName(args, v.illusion_text.value),
                    file_ext |-> v.file_ext.value,
                    file_path |-> args.file_path,
                    font_path |-> v.font_path.value]]

(***************************************************************************)
(* _sanitize_filename and get_file_path.  A file name is a sequence of     *)
(* characters, a path the sequence of its components (POSIX: "/" is the    *)
(* separator), a component a sequence of characters.  The file system is   *)
(* a record: link (the output file is a symbolic link that leaves the      *)
(* base directory), parent_exists and parent_is_dir.                       *)
(***************************************************************************)
MaxFilenameLength == 200

ReplaceChar(text, old) ==
    [i \in 1..Len(text) |-> IF text[i] = old THEN "_" ELSE text[i]]

\* str.replace('..', '_'): the occurrences from the left, not overlapping;
\* text from position i on, appended to out
RECURSIVE ReplaceDotDotFrom(_, _, _)
ReplaceDotDotFrom(text, i, out) ==
    IF Len(out) + i > Len(text) + i THEN out
    ELSE IF i > Len(text) THEN out
    ELSE IF i < Len(text) /\ text[i] = "." /\ text[i + 1] = "."
         THEN ReplaceDotDotFrom(text, i + 2, Append(out, "_"))
         ELSE ReplaceDotDotFrom(text, i + 1, Append(out, text[i]))

ReplaceDotDot(text) == ReplaceDotDotFrom(text, 1, <<>>)

\* mutant: the path separator is not replaced
ReplaceDangerousKeepSlash(filename) ==
    ReplaceChar(ReplaceChar(ReplaceChar(
        ReplaceDotDot(ReplaceChar(filename, "\\")), "NUL"), "\n"), "\r")

\* for char in ['/', '\\', '..', '\0', '\n', '\r']: replace(char, '_')
ReplaceDangerous(filename) ==
    ReplaceChar(ReplaceChar(ReplaceChar(
        ReplaceDotDot(ReplaceChar(ReplaceChar(filename, "/"), "\\")),
        "NUL"), "\n"), "\r")

sanitize_filename(filename) ==
    IF filename = <<>> THEN Invalid("ValidationError")
    ELSE Valid(Truncate(ReplaceDangerous(filename), MaxFilenameLength))

\* the components of a path string: the runs of characters between "/",
\* from position i on, after the components parts and the run current
RECURSIVE SplitFrom(_, _, _, _)
SplitFrom(chars, i, parts, current) ==
    IF Len(parts) + Len(current) < 0 THEN parts
    ELSE IF i > Len(chars)
    THEN IF current = <<>> THEN parts ELSE Append(parts, current)
    ELSE IF chars[i] = "/"
         THEN SplitFrom(chars, i + 1,
                        IF current = <<>> THEN parts ELSE Append(parts, current),
                        <<>>)
         ELSE SplitFrom(chars, i + 1, parts, Append(current, chars[i]))

PathParts(chars) == SplitFrom(chars, 1, <<>>, <<>>)

IsAbsolute(chars) == chars # <<>> /\ Head(chars) = "/"

\* base_path / writefile: an absolute writefile replaces the base
JoinPath(base_path, writefile) ==
    IF IsAbsolute(writefile) THEN PathParts(writefile)
    ELSE base_path \o PathParts(writefile)

\* Path.resolve() without links: "." is dropped, ".." leaves a directory
RECURSIVE Normalize(_, _)
Normalize(parts, done) ==
    IF parts = <<>> THEN done
    ELSE IF Head(parts) = <<".">> THEN Normalize(Tail(parts), done)
    ELSE IF Head(parts) = <<".", ".">>
         THEN Normalize(Tail(parts),
                        IF done = <<>> THEN done ELSE SubSeq(done, 1, Len(done) - 1))
         ELSE Normalize(Tail(parts), Append(done, Head(parts)))

Cwd == << <<"home">>, <<"user">> >>

\* the components of the file_path arguments of the model
FilePathParts(file_path) ==
    CASE file_path = "" -> <<>>
      [] file_path = ".." -> << <<".", ".">> >>
      [] OTHER -> << <<file_path>> >>
LinkTarget == << <<"etc">>, <<"passwd">> >>

\* Path(self.file_path).resolve(), or the working directory
BasePath(file_path) ==
    IF file_path = "" THEN Cwd ELSE Normalize(Cwd \o FilePathParts(file_path), <<>>)

\* handle.resolve(): a symbolic link is followed
Resolve(fs, base_path, handle) ==
    IF fs.link /\ IsPrefix(base_path, Normalize(handle, <<>>)) THEN LinkTarget
    ELSE Normalize(handle, <<>>)

\* get_file_path: the exception raised, the path returned, and the
\* safe_filename and base_path it computed on the way
get_file_path(self, fs) ==
    LET base_path == BasePath(self.file_path)
        safe == sanitize_filename(self.file_name)
        writefile == safe.value \o <<self.file_ext>>
        resolved == Resolve(fs, base_path, JoinPath(base_path, writefile))
        parent == SubSeq(resolved, 1, Len(resolved) - 1)
        failed == [raised |-> "ValidationError", ret |-> None,
                   safe_filename |-> safe.value, base_path |-> base_path]
    IN  IF safe.raised # "None" THEN failed
        ELSE IF ~IsPrefix(base_path, resolved) THEN failed
        ELSE IF ~fs.parent_exists THEN failed
        ELSE IF ~fs.parent_is_dir THEN failed
        ELSE [raised |-> "None", ret |-> resolved,
              safe_filename |-> safe.value, base_path |-> base_path]

Returned(method) == [method |-> method, raised |-> "None"]
Raised(method, error) == [method |-> method, raised |-> error]
Constructed == [method |-> "__init__", raised |-> "None", nth |-> 1]

\* how many calls of `method` in a row this one makes on object o
Nth(o, method) == IF call[o].method = method THEN call[o].nth + 1 ELSE 1

\* object o leaves a call of `method` as `after`, with outcome `outcome`
Finish(o, method, after, outcome) ==
    /\ obj' = [obj EXCEPT ![o] = after]
    /\ prev' = [prev EXCEPT ![o] = obj[o]]
    /\ call' = [call EXCEPT ![o] = outcome @@ [nth |-> Nth(o, method)]]
    /\ pc' = [pc EXCEPT ![o] = IF outcome.raised = "None" THEN method ELSE "raised"]
    /\ UNCHANGED rasterizer

CheckLength(o) ==
    /\ pc[o] = "init"
    /\ Finish(o, "check_length", check_length(obj[o]),
              IF check_length_raises(obj[o])
              THEN Raised("check_length", "ValidationError")
              ELSE Returned("check_length"))

EstimateFontSize(o) ==
    /\ pc[o] = "check_length"
    /\ Finish(o, "estimate_font_size", estimate_font_size(obj[o]),
              Returned("estimate_font_size"))

DrawClear(o) ==
    /\ pc[o] = "estimate_font_size"
    /\ Finish(o, "draw_clear", draw_clear(obj[o]), Returned("draw_clear"))

GetFontsizeOutcome(r) ==
    [method |-> "get_fontsize", raised |-> r.raised, ret |-> r.ret,
     search |-> r.search, path |-> r.path, error |-> r.error]

\* mutant: font_size_guess kept in one place for all objects (a class
\* attribute), so the guess a fallback lowers is lowered for every object
GetFontsizeSharedGuess(o, from) ==
    /\ pc[o] \in from
    /\ \E r \in {get_fontsize(obj[o], rasterizer)} :
          /\ obj' = [x \in DOMAIN obj |->
                        IF x = o THEN r.self
                        ELSE [obj[x] EXCEPT !.font_size_guess = r.self.font_size_guess]]
          /\ prev' = [prev EXCEPT ![o] = obj[o]]
          /\ call' = [call EXCEPT ![o] = GetFontsizeOutcome(r)
                                            @@ [nth |-> Nth(o, "get_fontsize")]]
          /\ pc' = [pc EXCEPT ![o] = IF r.raised = "None" THEN "get_fontsize"
                                                          ELSE "raised"]
          /\ UNCHANGED rasterizer

GetFontsize(o, from) ==
    /\ pc[o] \in from
    /\ \E r \in {get_fontsize(obj[o], rasterizer)} :
          Finish(o, "get_fontsize", r.self, GetFontsizeOutcome(r))

DrawFrame(o) ==
    /\ pc[o] = "get_fontsize"
    /\ Finish(o, "draw_frame", draw_frame(obj[o], rasterizer), Returned("draw_frame"))

Stamp(o) ==
    /\ pc[o] = "draw_frame"
    /\ Finish(o, "stamp", stamp(obj[o]), Returned("stamp"))

AlphaToWhite(o, from) ==
    /\ pc[o] \in from
    /\ Nth(o, "alpha_to_white") <= MaxRepeat
    /\ Finish(o, "alpha_to_white", alpha_to_white(obj[o]), Returned("alpha_to_white"))

(***************************************************************************)
(* Rasterizers and texts the specifications draw from.                     *)
(***************************************************************************)
Repeat(c, n) == [i \in 1..n |-> c]

FailSizes == {10, 100, 190}

FailModes ==
    {<<"none", 0>>} \cup {<<m, f>> : m \in {"from", "at"}, f \in FailSizes}

Rasterizer(wnum, wden, fail, cols, rows, level) ==
    [wnum |-> wnum, wden |-> wden, failMode |-> fail[1], failSize |-> fail[2],
     cols |-> cols, rows |-> rows, level |-> level]

PlainRasterizer == Rasterizer(1, 1, <<"none", 0>>, {}, {}, 0)

(***************************************************************************)
(* SpecText: check_length and estimate_font_size on one object, for the    *)
(* texts c^n d^m of at most MaxLen characters.                             *)
(***************************************************************************)
TextChars == {"l", "a", "W", " ", "\t"}

TextFamily ==
    {Repeat(c, n) \o Repeat(d, m) :
        c \in TextChars, d \in TextChars, n \in 0..MaxLen, m \in 0..MaxLen}

Texts == {t \in TextFamily : Len(t) <= MaxLen}

Charmaxes == {1, 3, DefaultCharmax}

InitText ==
    /\ \E t \in Texts, cm \in Charmaxes :
          obj = [o \in {1} |->
                   NewObject(t, cm, DefaultImgSide, DefaultCropX, DefaultCropY,
                             Black, White, 1)]
    /\ pc = [o \in {1} |-> "init"]
    /\ prev = [o \in {1} |-> None]
    /\ call = [o \in {1} |-> Constructed]
    /\ rasterizer = PlainRasterizer

NextText == CheckLength(1) \/ EstimateFontSize(1)

SpecText == InitText /\ [][NextText]_vars

(***************************************************************************)
(* SpecFit: estimate_font_size and get_fontsize on the default canvas, for *)
(* texts of every guess and rasterizers of every width and failure.        *)
(***************************************************************************)
WidthScales == {1, 5}

SetGuesses == {10, 50, 320, 340}

FitTexts == {Repeat("W", n) : n \in 1..MaxLen} \cup {<<" ">>}

InitFit ==
    /\ \E t \in FitTexts :
          obj = [o \in {1} |->
                   NewObject(t, DefaultCharmax, DefaultImgSide, DefaultCropX,
                             DefaultCropY, Black, White, 1)]
    /\ pc = [o \in {1} |-> "check_length"]
    /\ prev = [o \in {1} |-> None]
    /\ call = [o \in {1} |-> Constructed]
    /\ \E wnum \in 1..MaxWidthNum, scale \in WidthScales, fail \in FailModes :
          rasterizer = Rasterizer(wnum * scale, 1, fail, {}, {}, 0)

\* a caller assigns font_size_guess itself
SetGuess(o) ==
    /\ pc[o] = "check_length"
    /\ \E g \in SetGuesses :
          Finish(o, "set_guess", [obj[o] EXCEPT !.font_size_guess = Some(g)],
                 Returned("set_guess"))

NextFit ==
    \/ EstimateFontSize(1)
    \/ SetGuess(1)
    \/ GetFontsize(1, {"estimate_font_size", "set_guess"})

SpecFit == InitFit /\ [][NextFit]_vars

(***************************************************************************)
(* SpecFrame: the whole pipeline of create() on one object with a canvas   *)
(* of CanvasSide, for the text rasters that are solid on a set of rows     *)
(* (RowSets) of one column or of all columns.                              *)
(***************************************************************************)
Side == 0..(CanvasSide - 1)

\* the sets of at most two rows, and of all rows or all but one
RowSets ==
    {rows \in SUBSET Side :
        Cardinality(rows) <= 2 \/ Cardinality(rows) >= CanvasSide - 1}

FramePatterns ==
    {<<cols, rows, 2>> : cols \in {{x} : x \in Side} \cup {Side}, rows \in RowSets}
    \cup {<<Side, Side, 1>>}

Rotations == {1, 2}

\* a font whose text is wnum * size / 128 pixels wide
SmallRasterizer(wnum, fail, pattern) ==
    Rasterizer(wnum, 128, fail, pattern[1], pattern[2], pattern[3])

SmallObject(text, num_rotations) ==
    NewObject(text, DefaultCharmax, CanvasSide, 0, 0, Black, White, num_rotations)

InitFrame ==
    /\ \E n \in Rotations : obj = [o \in {1} |-> SmallObject(<<"W">>, n)]
    /\ pc = [o \in {1} |-> "init"]
    /\ prev = [o \in {1} |-> None]
    /\ call = [o \in {1} |-> Constructed]
    /\ \E pattern \in FramePatterns :
          rasterizer = SmallRasterizer(4, <<"none", 0>>, pattern)

Create(o) ==
    \/ CheckLength(o)
    \/ EstimateFontSize(o)
    \/ DrawClear(o)
    \/ GetFontsize(o, {"draw_clear"})
    \/ DrawFrame(o)
    \/ Stamp(o)
    \/ AlphaToWhite(o, {"stamp"})

NextFrame == Create(1)

SpecFrame == InitFrame /\ [][NextFrame]_vars

(***************************************************************************)
(* SpecStamp: stamp and alpha_to_white applied to every circular mask of   *)
(* side StampSide over a palette of two opaque colours and transparent     *)
(* background, onto the accumulator of draw_clear or a transparent one.    *)
(***************************************************************************)
Red == <<255, 0, 0>>

Palette == {RGBA(Black, 255), RGBA(Red, 255), RGBA(White, 0)}

Accumulators == {NewImage(StampSide, White),
                 [p \in Pixels(StampSide) |-> RGBA(White, 0)]}

InitStamp ==
    /\ \E n \in Rotations, circle \in [Pixels(StampSide) -> Palette],
          full \in Accumulators :
          obj = [o \in {1} |->
                   [NewObject(<<"W">>, DefaultCharmax, StampSide, 0, 0, Black,
                              White, n)
                    EXCEPT !.circle_img = circle, !.full_image = full]]
    /\ pc = [o \in {1} |-> "draw_frame"]
    /\ prev = [o \in {1} |-> None]
    /\ call = [o \in {1} |-> Constructed]
    /\ rasterizer = PlainRasterizer

NextStamp == Stamp(1) \/ AlphaToWhite(1, {"stamp", "alpha_to_white"})

SpecStamp == InitStamp /\ [][NextStamp]_vars

(***************************************************************************)
(* Spec: two objects constructed from the same configuration, each run     *)
(* through create() with the same rasterizer, in any interleaving.         *)
(***************************************************************************)
Objects == {1, 2}

PairTexts == {<<"W">>, Repeat("W", 6)}

PairPatterns ==
    {<<{CanvasSide \div 2}, Side, 2>>, <<Side, Side, 2>>, <<Side, {0, 3}, 2>>,
     <<{1}, {2, 5}, 2>>}

PairFails == {<<"none", 0>>, <<"from", 10>>}

Init ==
    /\ \E t \in PairTexts, n \in Rotations :
          obj = [o \in Objects |-> SmallObject(t, n)]
    /\ pc = [o \in Objects |-> "init"]
    /\ prev = [o \in Objects |-> None]
    /\ call = [o \in Objects |-> Constructed]
    /\ \E wnum \in 4..7, fail \in PairFails, pattern \in PairPatterns :
          rasterizer = SmallRasterizer(wnum, fail, pattern)

Next == \E o \in Objects : Create(o)

Spec == Init /\ [][Next]_vars

(***************************************************************************)
(* SpecInit: the constructor on arguments around the bounds of             *)
(* _validate_inputs, on texts and on file names, then get_file_path on the *)
(* object it returned, for every file system.                              *)
(***************************************************************************)
DefaultText == <<"H", "E", "L", "L", "O", " ", "W", "O", "R", "L", "D">>

DefaultArgs ==
    [illusion_text |-> DefaultText, font_path |-> "font.ttf",
     num_rotations |-> Whole(6), file_ext |-> ".png",
     text_color |-> Color(<<Whole(0), Whole(0), Whole(0)>>),
     background_color |-> Color(<<Whole(255), Whole(255), Whole(255)>>),
     img_side |-> Whole(DefaultImgSide), charmax |-> Whole(DefaultCharmax),
     crop_width_x |-> Whole(DefaultCropX), crop_width_y |-> Whole(DefaultCropY),
     darkness_threshold |-> Whole(DefaultThreshold),
     file_name |-> None, file_path |-> "", upper_case |-> TRUE]

IntParams == DOMAIN IntBounds

\* the numbers within EdgeSpread halves of a bound, and what is no number
EdgeNums(bounds) ==
    {Num(2 * bounds[i] + d) : i \in 1..2, d \in (-EdgeSpread)..EdgeSpread}
    \cup {NaN, Inf, NonNumeric}

NumericArgs(default) ==
    UNION {{[default EXCEPT ![p1] = v1, ![p2] = v2] :
               v1 \in EdgeNums(IntBounds[p1]), v2 \in EdgeNums(IntBounds[p2])} :
           p1 \in IntParams, p2 \in IntParams}

ColorArgs(default) ==
    {[default EXCEPT !.text_color = Color(<<c, Whole(0), d>>)] :
        c \in EdgeNums(ColorBounds), d \in EdgeNums(ColorBounds)}
    \cup {[default EXCEPT !.background_color = Color(<<Whole(255), c, Whole(255)>>),
                              !.img_side = v] :
              c \in EdgeNums(ColorBounds), v \in EdgeNums(IntBounds.img_side)}
    \cup {[default EXCEPT !.text_color = c] :
              c \in {NonTuple, Color(<<Whole(0), Whole(0)>>),
                     Color(<<Whole(0), Whole(0), Whole(0), Whole(0)>>)}}

RECURSIVE Strings(_, _)
Strings(chars, n) ==
    IF n = 0 THEN {<<>>}
    ELSE Strings(chars, n - 1)
         \cup {Append(t, c) : t \in Strings(chars, n - 1), c \in chars}

InitTexts(n) ==
    Strings({"a", "A", " ", "RLO", "NUL"}, n)
    \cup {Repeat("A", 10001)}

TextArgs(default) ==
    {[default EXCEPT !.illusion_text = t, !.upper_case = u, !.file_name = f] :
        t \in InitTexts(MaxInitLen), u \in BOOLEAN,
        f \in {None, Some(<<"o", "u", "t">>)}}

FileNames(n) ==
    Strings({"a", ".", "/", "\\", "NUL", "\n"}, n)
    \cup {Repeat("a", k) \o t :
             k \in {MaxFilenameLength - 1, MaxFilenameLength},
             t \in Strings({"a", ".", "/", "\r"}, 2)}

FileArgs(default) ==
    {[default EXCEPT !.file_name = Some(f), !.file_path = d] :
        f \in FileNames(MaxNameLen), d \in {"", "out", ".."}}
    \cup {[default EXCEPT !.file_ext = e, !.font_path = fp] :
              e \in {".png", ".PNG", ".jpg", ".exe", ""},
              fp \in {"font.ttf", "font.exe", "huge.ttf", ""}}

InitArgs(default) ==
    NumericArgs(default) \cup ColorArgs(default) \cup TextArgs(default)
    \cup FileArgs(default)

FileSystems ==
    [link : BOOLEAN, parent_exists : BOOLEAN, parent_is_dir : BOOLEAN]

NotCalled == [method |-> "none", raised |-> "None", nth |-> 0]

InitNew ==
    /\ obj = [o \in {} |-> None]
    /\ pc = [o \in {1} |-> "new"]
    /\ prev = [o \in {1} |-> None]
    /\ call = [o \in {1} |-> NotCalled]
    /\ rasterizer = PlainRasterizer

\* o = Pyedgeon(**args) for some args of argset: the object exists if
\* __init__ returns
ConstructFrom(o, argset) ==
    /\ pc[o] = "new"
    /\ \E args \in argset : \E r \in {Pyedgeon(args)} :
          /\ obj' = IF r.raised = "None"
                    THEN [x \in DOMAIN obj \cup {o} |->
                             IF x = o THEN r.self ELSE obj[x]]
                    ELSE obj
          /\ pc' = [pc EXCEPT ![o] = IF r.raised = "None" THEN "init" ELSE "raised"]
          /\ call' = [call EXCEPT ![o] =
                         [method |-> "__init__", raised |-> r.raised, nth |-> 1,
                          args |-> args]]
          /\ UNCHANGED <<prev, rasterizer>>

Construct(o) == ConstructFrom(o, InitArgs(DefaultArgs))

GetFilePath(o) ==
    /\ pc[o] = "init"
    /\ \E fs \in FileSystems : \E r \in {get_file_path(obj[o], fs)} :
          Finish(o, "get_file_path", obj[o],
                 [method |-> "get_file_path", raised |-> r.raised, ret |-> r.ret,
                  safe_filename |-> r.safe_filename, base_path |-> r.base_path,
                  fs |-> fs])

NextInit == Construct(1) \/ GetFilePath(1)

SpecInit == InitNew /\ [][NextInit]_vars

(***************************************************************************)
(* SpecStretch: the stretch loop of draw_frame, one pass of the body of    *)
(* the inner loop at a time, on a canvas of StretchSide, from the state    *)
(* after the threshold (self.img is the thresholded mask) for the masks    *)
(* that are opaque on the rows StretchRowSets of one column or of all.     *)
(* The call record holds the loop variables x, y of the next pass, the     *)
(* pixel the last pass copied to, and the pixels the clip has forced       *)
(* transparent before and after the last pass.                             *)
(***************************************************************************)
StretchRows == 0..(StretchSide - 1)

StretchRowSets ==
    {rows \in SUBSET StretchRows :
        Cardinality(rows) <= 1 \/ Cardinality(rows) >= StretchSide - 1}

StretchMasks ==
    {[p \in Pixels(StretchSide) |->
         IF p[1] \in cols /\ p[2] \in rows THEN RGBA(Black, 255)
         ELSE RGBA(White, 0)] :
        cols \in {{x} : x \in StretchRows} \cup {StretchRows},
        rows \in StretchRowSets}

InitStretch ==
    /\ \E mask \in StretchMasks :
          obj = [o \in {1} |->
                   [draw_clear(NewObject(<<"W">>, DefaultCharmax, StretchSide,
                                         0, 0, Black, White, 1))
                    EXCEPT !.img = mask]]
    /\ pc = [o \in {1} |-> "threshold"]
    /\ prev = [o \in {1} |-> None]
    /\ call = [o \in {1} |-> Constructed]
    /\ rasterizer = PlainRasterizer

\* self.circle_img.paste(self.img, (0, 0)); the loops start at x = 0, y = 0
StretchBegin(o) ==
    /\ pc[o] = "threshold"
    /\ Finish(o, "paste", [obj[o] EXCEPT !.circle_img = obj[o].img],
              [method |-> "paste", raised |-> "None", x |-> 0, y |-> 0,
               copied |-> None, cleared_before |-> {}, cleared |-> {}])

\* the loop variables after the pass at (x, y)
NextXY(N, x, y) ==
    IF ~InCircleColumn(N, x) \/ y = N - 1 THEN <<x + 1, 0>> ELSE <<x, y + 1>>

\* the pixel the pass at (x, y) copies to, None if it copies nothing
CopiedTo(N, x, y) ==
    IF InCircleColumn(N, x) /\ Ydest(N, x, y) >= 0 /\ Ydest(N, x, y) < N
    THEN <<x, Ydest(N, x, y)>>
    ELSE None

\* the pixels the pass at (x, y) forces transparent
ClearedBy(N, x, y) ==
    IF InCircleColumn(N, x) /\ OutsideCircle(N, x, y) THEN {<<x, y>>} ELSE {}

\* one pass: the test of the column and, inside the circle, the body of
\* the inner loop at (x, y); the call of draw_frame returns after the last
StretchPass(o) ==
    /\ pc[o] \in {"paste", "stretch"}
    /\ \E N \in {obj[o].img_side}, x \in {call[o].x}, y \in {call[o].y} :
          Finish(o, IF NextXY(N, x, y)[1] >= N THEN "draw_frame" ELSE "stretch",
                 [obj[o] EXCEPT !.circle_img =
                     StretchStep(obj[o].circle_img, obj[o].img, N,
                                 obj[o].background_color, x, y)],
                 [method |-> IF NextXY(N, x, y)[1] >= N THEN "draw_frame"
                             ELSE "stretch",
                  raised |-> "None",
                  x |-> NextXY(N, x, y)[1], y |-> NextXY(N, x, y)[2],
                  copied |-> CopiedTo(N, x, y),
                  cleared_before |-> call[o].cleared,
                  cleared |-> call[o].cleared \cup ClearedBy(N, x, y)])

NextStretch == StretchBegin(1) \/ StretchPass(1)

SpecStretch == InitStretch /\ [][NextStretch]_vars

(***************************************************************************)
(* SpecGeometry: the constructor on canvas sides and horizontal crops      *)
(* around img_side = 2 * crop_width_x, then create() up to get_fontsize.   *)
(***************************************************************************)
GeometrySides == {64, 65, 66}

GeometryCrops == {0, 31, 32, 33, 34, 500}

GeometryArgs(default) ==
    {[default EXCEPT !.img_side = Whole(side), !.crop_width_x = Whole(crop)] :
        side \in GeometrySides, crop \in GeometryCrops}

InitGeometry ==
    /\ obj = [o \in {} |-> None]
    /\ pc = [o \in {1} |-> "new"]
    /\ prev = [o \in {1} |-> None]
    /\ call = [o \in {1} |-> NotCalled]
    /\ \E wnum \in 1..MaxWidthNum, fail \in PairFails :
          rasterizer = SmallRasterizer(wnum, fail, <<{}, {}, 0>>)

NextGeometry ==
    \/ ConstructFrom(1, GeometryArgs(DefaultArgs))
    \/ CheckLength(1)
    \/ EstimateFontSize(1)
    \/ DrawClear(1)
    \/ GetFontsize(1, {"draw_clear"})

SpecGeometry == InitGeometry /\ [][NextGeometry]_vars

(***************************************************************************)
(* SpecColor: the whole pipeline of create() on one object with a canvas   *)
(* of CanvasSide, for every darkness_threshold with the default            *)
(* background, and for every pair of colours of a palette with the default *)
(* darkness_threshold.                                                     *)
(***************************************************************************)
Green255 == <<0, 255, 0>>

Blue == <<0, 0, 255>>

Colors == {Black, White, Red, Green255, Blue}

Thresholds == IntBounds.darkness_threshold[1]..IntBounds.darkness_threshold[2]

\* text colour, background colour, darkness_threshold
ColorConfigs ==
    {<<fg, White, t>> : fg \in {Black, Red}, t \in Thresholds}
    \cup {<<c[1], c[2], DefaultThreshold>> :
              c \in {d \in Colors \X Colors : d[1] # d[2]}}

ColorPatterns == {<<Side, Side, 1>>, <<{3}, {1, 4}, 2>>, <<Side, {2, 5}, 1>>}

InitColor ==
    /\ \E c \in ColorConfigs :
          obj = [o \in {1} |->
                   [NewObject(<<"W">>, DefaultCharmax, CanvasSide, 0, 0, c[1],
                              c[2], 2)
                    EXCEPT !.darkness_threshold = c[3]]]
    /\ pc = [o \in {1} |-> "init"]
    /\ prev = [o \in {1} |-> None]
    /\ call = [o \in {1} |-> Constructed]
    /\ \E pattern \in ColorPatterns :
          rasterizer = SmallRasterizer(4, <<"none", 0>>, pattern)

NextColor == Create(1)

SpecColor == InitColor /\ [][NextColor]_vars

(***************************************************************************)
(* SpecAgain: create() called on one object, then called again on the same *)
(* object, for texts that check_length truncates and fonts for which the   *)
(* fallback lowers the guess.                                              *)
(***************************************************************************)
AgainCharmaxes == {3, DefaultCharmax}

InitAgain ==
    /\ \E t \in PairTexts, cm \in AgainCharmaxes, n \in Rotations :
          obj = [o \in {1} |->
                   NewObject(t, cm, CanvasSide, 0, 0, Black, White, n)]
    /\ pc = [o \in {1} |-> "init"]
    /\ prev = [o \in {1} |-> None]
    /\ call = [o \in {1} |-> Constructed]
    /\ \E wnum \in 4..7, fail \in PairFails, pattern \in PairPatterns :
          rasterizer = SmallRasterizer(wnum, fail, pattern)

\* o.create(), also after a create() that raised; the outcome keeps what the
\* call before raised
CallCreate(o) ==
    /\ pc[o] \in {"init", "create", "raised"}
    /\ Nth(o, "create") <= MaxRepeat
    /\ \E r \in {create(obj[o], rasterizer)} :
          Finish(o, "create", r.self,
                 [method |-> "create", raised |-> r.raised,
                  before |-> call[o].raised])

NextAgain == CallCreate(1)

SpecAgain == InitAgain /\ [][NextAgain]_vars

(***************************************************************************)
(* SpecRefit: SpecFit with get_fontsize called again on the object after   *)
(* it returned, with no estimate_font_size in between.                     *)
(***************************************************************************)
\* o.get_fontsize() right after o.get_fontsize() returned; the outcome keeps
\* the outcome of the call before
GetFontsizeAgain(o) ==
    /\ pc[o] = "get_fontsize"
    /\ Nth(o, "get_fontsize") <= MaxRepeat
    /\ \E r \in {get_fontsize(obj[o], rasterizer)} :
          Finish(o, "get_fontsize", r.self,
                 GetFontsizeOutcome(r) @@ [before |-> call[o]])

NextRefit == NextFit \/ GetFontsizeAgain(1)

SpecRefit == InitFit /\ [][NextRefit]_vars

(***************************************************************************)
(* Properties.                                                             *)
(***************************************************************************)
JustCalled(o, method) == call[o].method = method


\* C9: after estimate_font_size, font_size_guess is an integer in [60, 220],
\* for every text; a text of at most 3 characters gets 220 and a text of 15
\* or more of the widest characters gets 60.
C9_GuessInRange ==
    \A o \in DOMAIN obj :
        JustCalled(o, "estimate_font_size") =>
            /\ obj[o].font_size_guess # None
            /\ Val(obj[o].font_size_guess) \in GuessFloor..GuessCeil
            /\ Len(obj[o].illusion_text) <= 3 =>
                    Val(obj[o].font_size_guess) = GuessCeil
            /\ ( /\ Len(obj[o].illusion_text) >= 15
                 /\ \A i \in 1..Len(obj[o].illusion_text) :
                        obj[o].illusion_text[i] \in Bucket135 ) =>
                    Val(obj[o].font_size_guess) = GuessFloor

\* C9 witness: the guess of a text of 15 or more wide characters is 60
C9_Witness ==
    \E o \in DOMAIN obj :
        /\ JustCalled(o, "estimate_font_size")
        /\ Len(obj[o].illusion_text) >= 15
        /\ \A i \in 1..Len(obj[o].illusion_text) : obj[o].illusion_text[i] = "W"
        /\ obj[o].font_size_guess = Some(GuessFloor)

\* C10: after check_length the text is the first min(len, charmax)
\* characters of the text before the call: unchanged when len <= charmax,
\* of length exactly charmax otherwise.
C10_CheckLengthTruncates ==
    \A o \in DOMAIN obj :
        (JustCalled(o, "check_length") /\ prev[o].charmax >= 1) =>
            /\ Len(obj[o].illusion_text) =
                   Min(Len(prev[o].illusion_text), prev[o].charmax)
            /\ IsPrefix(obj[o].illusion_text, prev[o].illusion_text)
            /\ Len(prev[o].illusion_text) <= prev[o].charmax =>
                   obj[o].illusion_text = prev[o].illusion_text
            /\ Len(prev[o].illusion_text) > prev[o].charmax =>
                   Len(obj[o].illusion_text) = prev[o].charmax

\* C10 witness: a text longer than charmax = 3 was cut to 3 characters
C10_Witness ==
    \E o \in DOMAIN obj :
        /\ JustCalled(o, "check_length")
        /\ prev[o].charmax = 3
        /\ Len(prev[o].illusion_text) > 3
        /\ Len(obj[o].illusion_text) = 3

\* the search window of a get_fontsize call on the object `self`
Window(self) ==
    WindowMin(Val(self.font_size_guess))..WindowMax(Val(self.font_size_guess))

\* the fits-predicate of a probe, a failed probe counting as not fitting
ProbeFits(self, size) ==
    /\ test_font_size(self, rasterizer, size).font # None
    /\ test_font_size(self, rasterizer, size).fits

FittingSizes(self) == {s \in Window(self) : ProbeFits(self, s)}

\* the fitting sizes of the window are downward closed: below a size that
\* fits, the next smaller size of the window fits
MonotoneFits(self) ==
    \A s \in Window(self) :
        (ProbeFits(self, s) /\ s - 1 \in Window(self)) => ProbeFits(self, s - 1)

SetMax(S) == CHOOSE m \in S : \A x \in S : x <= m

\* C2: when the fits-predicate is monotone on the window and some size of
\* the window fits, get_fontsize returns the largest fitting size of the
\* window (what a linear scan of the window finds).
C2_FitterOptimal ==
    \A o \in DOMAIN obj :
        ( /\ JustCalled(o, "get_fontsize")
          /\ MonotoneFits(prev[o])
          /\ FittingSizes(prev[o]) # {} ) =>
            /\ call[o].raised = "None"
            /\ call[o].ret[1] = SetMax(FittingSizes(prev[o]))

\* C2 witness: the largest fitting size lies strictly inside the window and
\* was returned
C2_Witness ==
    \E o \in DOMAIN obj :
        /\ JustCalled(o, "get_fontsize")
        /\ MonotoneFits(prev[o])
        /\ ProbeFits(prev[o], WindowMin(Val(prev[o].font_size_guess)) + 1)
        /\ ~ProbeFits(prev[o], WindowMax(Val(prev[o].font_size_guess)))
        /\ call[o].ret # None
        /\ call[o].ret[1] = SetMax(FittingSizes(prev[o]))

\* C3: whenever get_fontsize returns (size, bbox), by the binary search or
\* by the fallback, bbox is the padded bounding box the probe measures at
\* size, it is narrower than img_side - 2 * crop_width_x, and the object's
\* font_size and boundingbox are size and bbox.
C3_ReturnedBoxFits ==
    \A o \in DOMAIN obj :
        (JustCalled(o, "get_fontsize") /\ call[o].raised = "None") =>
            /\ call[o].path \in {"binary", "fallback"}
            /\ call[o].ret[2] # None
            /\ call[o].ret[2] = test_font_size(prev[o], rasterizer, call[o].ret[1]).bbox
            /\ call[o].ret[2][3] - call[o].ret[2][1]
                   < obj[o].img_side - 2 * obj[o].crop_width_x
            /\ obj[o].font_size = Some(call[o].ret[1])
            /\ obj[o].boundingbox = call[o].ret[2]

\* C3 witness: get_fontsize returned a size found by the fallback
C3_Witness ==
    \E o \in DOMAIN obj :
        /\ JustCalled(o, "get_fontsize")
        /\ call[o].raised = "None"
        /\ call[o].path = "fallback"
        /\ obj[o].font_size = Some(call[o].ret[1])

ClipZone(N) ==
    {p \in Pixels(N) :
        \/ N <= 4
        \/ (2 * p[1] - N) * (2 * p[1] - N) + (2 * p[2] - N) * (2 * p[2] - N)
               >= (N - 4) * (N - 4)}

\* C4: after draw_frame every pixel of the circular mask in the clip zone
\* has alpha 0.
C4_Containment ==
    \A o \in DOMAIN obj :
        JustCalled(o, "draw_frame") =>
            \A p \in ClipZone(obj[o].img_side) : Alpha(obj[o].circle_img[p]) = 0

\* the non-transparent pixels of an image lie in column x0
OnlyColumn(image, N, x0) == \A p \in Pixels(N) : Alpha(image[p]) # 0 => p[1] = x0

\* C5: if the thresholded mask is non-transparent only in column x0, the
\* circular mask of draw_frame is non-transparent only in column x0.
C5_ColumnIndependence ==
    \A o \in DOMAIN obj :
        JustCalled(o, "draw_frame") =>
            \A x0 \in 0..(obj[o].img_side - 1) :
                OnlyColumn(obj[o].img, obj[o].img_side, x0) =>
                    OnlyColumn(obj[o].circle_img, obj[o].img_side, x0)

\* C5 witness: a mask with text in one column only, some of which the
\* stretch moved to another row of that column
C5_Witness ==
    \E o \in DOMAIN obj :
        /\ JustCalled(o, "draw_frame")
        /\ \E x0 \in 0..(obj[o].img_side - 1) :
              /\ OnlyColumn(obj[o].img, obj[o].img_side, x0)
              /\ \E y \in 0..(obj[o].img_side - 1) :
                    /\ Alpha(obj[o].img[<<x0, y>>]) = 0
                    /\ Alpha(obj[o].circle_img[<<x0, y>>]) = 255

\* the rotated masks stamp composites when num_rotations = 2
Rotation0(self) == self.circle_img
Rotation1(self) ==
    [p \in Pixels(self.img_side) |->
        self.circle_img[<<self.img_side - 1 - p[2], p[1]>>]]

\* C6: with num_rotations = 2, after stamp every accumulator pixel where
\* the rotation i = 0 and the rotation i = 1 are both opaque is the pixel
\* of the rotation i = 1.
C6_StampOrder ==
    \A o \in DOMAIN obj :
        (JustCalled(o, "stamp") /\ obj[o].num_rotations = 2) =>
            \A p \in Pixels(obj[o].img_side) :
                ( /\ Alpha(Rotation0(prev[o])[p]) = 255
                  /\ Alpha(Rotation1(prev[o])[p]) = 255 ) =>
                    obj[o].full_image[p] = Rotation1(prev[o])[p]

\* C6 witness: both rotations are opaque at a pixel, with different colours
C6_Witness ==
    \E o \in DOMAIN obj :
        /\ JustCalled(o, "stamp")
        /\ obj[o].num_rotations = 2
        /\ \E p \in Pixels(obj[o].img_side) :
              /\ Alpha(Rotation0(prev[o])[p]) = 255
              /\ Alpha(Rotation1(prev[o])[p]) = 255
              /\ Rotation0(prev[o])[p] # Rotation1(prev[o])[p]
              /\ obj[o].full_image[p] = Rotation1(prev[o])[p]

\* C7: after an alpha_to_white pass no pixel of full_image has alpha 0, and
\* a second pass in a row leaves every pixel unchanged.
C7_FlattenIdempotent ==
    \A o \in DOMAIN obj :
        JustCalled(o, "alpha_to_white") =>
            /\ \A p \in Pixels(obj[o].img_side) : Alpha(obj[o].full_image[p]) # 0
            /\ call[o].nth >= 2 => obj[o].full_image = prev[o].full_image

\* C7 witness: the second pass in a row, on an image with flattened and
\* with stamped pixels
C7_Witness ==
    \E o \in DOMAIN obj :
        /\ JustCalled(o, "alpha_to_white")
        /\ call[o].nth = 2
        /\ \E p \in Pixels(obj[o].img_side), q \in Pixels(obj[o].img_side) :
              /\ Alpha(obj[o].circle_img[p]) = 0
              /\ obj[o].full_image[p] = RGBA(obj[o].background_color, 255)
              /\ obj[o].full_image[q] = RGBA(Red, 255)

\* the scenario of C8: canvas side 8, a raster that thresholds to a mask
\* opaque in column 4, rows 0-7, and transparent elsewhere, one rotation
C8_Scenario(o) ==
    /\ obj[o].img_side = 8
    /\ obj[o].num_rotations = 1
    /\ rasterizer.cols = {4} /\ rasterizer.rows = 0..7 /\ rasterizer.level = 2

\* C8 as stated: in the scenario the final image has column 4 text-coloured
\* in all 8 rows.
C8_Column4AllRows ==
    \A o \in DOMAIN obj :
        (C8_Scenario(o) /\ JustCalled(o, "alpha_to_white")) =>
            \A y \in 0..7 :
                obj[o].full_image[<<4, y>>] = RGBA(obj[o].text_color, 255)

\* C8 amended: in the scenario the mask is opaque exactly in column 4, the
\* circular mask keeps of that column the rows 3, 4, 5 (the rows nearer
\* than radius - 2 = 2 to the centre) and the final image is text-coloured
\* at exactly these three pixels and opaque background everywhere else.
C8_Column4InnerRows ==
    \A o \in DOMAIN obj :
        C8_Scenario(o) =>
            /\ pc[o] \in {"draw_frame", "stamp", "alpha_to_white"} =>
                  /\ \A p \in Pixels(8) : Alpha(obj[o].img[p]) = 255 <=> p[1] = 4
                  /\ \A p \in Pixels(8) :
                        obj[o].circle_img[p] =
                            IF p[1] = 4 /\ p[2] \in {3, 4, 5}
                            THEN RGBA(obj[o].text_color, 255)
                            ELSE RGBA(obj[o].background_color, 0)
            /\ JustCalled(o, "alpha_to_white") =>
                  \A p \in Pixels(8) :
                      obj[o].full_image[p] =
                          IF p[1] = 4 /\ p[2] \in {3, 4, 5}
                          THEN RGBA(obj[o].text_color, 255)
                          ELSE RGBA(obj[o].background_color, 255)

\* C8 witness: the scenario ran to the end of the pipeline
C8_Witness ==
    \E o \in DOMAIN obj :
        /\ C8_Scenario(o)
        /\ JustCalled(o, "alpha_to_white")
        /\ obj[o].full_image[<<4, 4>>] = RGBA(obj[o].text_color, 255)
        /\ obj[o].full_image[<<4, 0>>] = RGBA(obj[o].background_color, 255)

\* a numeric argument that lies outside the bounds <<lo, hi>>
OutOfBounds(value, bounds) ==
    \/ value.kind = "inf"
    \/ /\ value.kind = "num"
       /\ (value.twice < 2 * bounds[1] \/ value.twice > 2 * bounds[2])

\* some numeric argument or colour component of args is outside its bounds
SomeOutOfBounds(args) ==
    \/ \E p \in IntParams : OutOfBounds(args[p], IntBounds[p])
    \/ \E c \in {args.text_color, args.background_color} :
          /\ c.kind = "tuple"
          /\ \E i \in 1..Len(c.items) : OutOfBounds(c.items[i], ColorBounds)

\* the attributes of an object are within the bounds of _validate_inputs
AttributesInBounds(self) ==
    /\ \A p \in IntParams : self[p] >= IntBounds[p][1] /\ self[p] <= IntBounds[p][2]
    /\ \A c \in {self.text_color, self.background_color} :
          \A i \in 1..3 : c[i] >= ColorBounds[1] /\ c[i] <= ColorBounds[2]

\* C11: an object exists only with every numeric attribute and colour
\* component within its bounds, and an argument outside its bounds makes
\* the constructor raise ValidationError.
C11_ValidatesBounds ==
    \A o \in DOMAIN call :
        JustCalled(o, "__init__") =>
            /\ o \in DOMAIN obj => AttributesInBounds(obj[o])
            /\ SomeOutOfBounds(call[o].args) =>
                  (o \notin DOMAIN obj /\ call[o].raised = "ValidationError")

\* the characters _sanitize_filename replaces
DangerousChars == {"/", "\\", "NUL", "\n", "\r"}

HasDotDot(name) == \E i \in 1..(Len(name) - 1) : name[i] = "." /\ name[i + 1] = "."

C13_FileNameIsObjectText ==
    \A o \in DOMAIN obj :
        (JustCalled(o, "__init__") /\ call[o].args.file_name = None) =>
            obj[o].file_name = obj[o].illusion_text

\* the text is what upper() (when upper_case) and _validate_text make of it
KeptAsGiven(args) ==
    /\ args.upper_case => Upper(args.illusion_text) = args.illusion_text
    /\ RemoveAll(args.illusion_text, DangerousUnicode) = args.illusion_text

\* C13 amended: when no file_name is given, the object's file_name is the
\* illusion_text argument as it was passed; it is the object's illusion_text
\* exactly when upper-casing (with upper_case) and the removal of the
\* direction marks leave the text as it was passed.
C13_FileNameIsTextArgument ==
    \A o \in DOMAIN obj :
        (JustCalled(o, "__init__") /\ call[o].args.file_name = None) =>
            /\ obj[o].file_name = call[o].args.illusion_text
            /\ obj[o].file_name = obj[o].illusion_text <=> KeptAsGiven(call[o].args)

\* C13 witness: a lower-case text constructed with upper_case
C13_Witness ==
    \E o \in DOMAIN obj :
        /\ JustCalled(o, "__init__")
        /\ call[o].args.file_name = None
        /\ call[o].args.upper_case
        /\ call[o].args.illusion_text = <<"a">>
        /\ obj[o].file_name = <<"a">>
        /\ obj[o].illusion_text = <<"A">>

\* the sizes get_fontsize probed, the last call
Probed(o) == {call[o].search.probes[i] : i \in 1..Len(call[o].search.probes)}

\* C14: if the font cannot be loaded at any probed size, get_fontsize
\* raises FileOperationError.
C14_FontLoadFailureRaises ==
    \A o \in DOMAIN obj :
        ( /\ JustCalled(o, "get_fontsize")
          /\ Probed(o) # {}
          /\ \A size \in Probed(o) : ~FontLoads(rasterizer, size) ) =>
            call[o].raised = "FileOperationError"

\* C15: when neither the binary search nor the fallback finds a fitting
\* size, get_fontsize raises an error whose message holds the text and the
\* canvas size.
C15_ErrorNamesTextAndCanvas ==
    \A o \in DOMAIN obj :
        (JustCalled(o, "get_fontsize") /\ call[o].search.best_font = None) =>
            /\ call[o].raised # "None"
            /\ call[o].error.text = Some(prev[o].illusion_text)
            /\ call[o].error.img_side = Some(prev[o].img_side)

\* C16: a column x with |x - N/2| >= N/2 contributes nothing to the circular
\* mask: after draw_frame every pixel of it has alpha 0, whatever the
\* thresholded mask holds there.
C16_OuterColumnTransparent ==
    \A o \in DOMAIN obj :
        JustCalled(o, "draw_frame") =>
            \A p \in Pixels(obj[o].img_side) :
                ~InCircleColumn(obj[o].img_side, p[1]) =>
                    Alpha(obj[o].circle_img[p]) = 0

\* C17: in the stretch loop no pass copies a source pixel into a pixel that
\* an earlier pass has forced transparent.
C17_ClipAfterCopy ==
    \A o \in DOMAIN obj :
        (pc[o] \in {"stretch", "draw_frame"} /\ call[o].copied # None) =>
            call[o].copied \notin call[o].cleared_before

\* the whole loop, as draw_frame runs it, ends as the passes end
StretchPassesAreStretch ==
    \A o \in DOMAIN obj :
        JustCalled(o, "draw_frame") =>
            obj[o].circle_img = Stretch(obj[o], obj[o].img)

\* the source rows the stretch maps to row Y of column x
SourceRows(N, x, Y) == {y \in 0..(N - 1) : Ydest(N, x, y) = Y}

\* C18: after the loop, in every column inside the circle each row Y outside
\* the clip zone is the destination of at least one source row, and its
\* pixel is the mask's pixel at the largest source row that maps to Y.
C18_LastWriteWins ==
    \A o \in DOMAIN obj :
        JustCalled(o, "draw_frame") =>
            \A p \in Pixels(obj[o].img_side) :
                ( /\ InCircleColumn(obj[o].img_side, p[1])
                  /\ ~OutsideCircle(obj[o].img_side, p[1], p[2]) ) =>
                    /\ SourceRows(obj[o].img_side, p[1], p[2]) # {}
                    /\ obj[o].circle_img[p] =
                          obj[o].img[<<p[1], SetMax(SourceRows(obj[o].img_side,
                                                               p[1], p[2]))>>]

\* C18 witness: a row outside the clip zone with two source rows of
\* different pixels holds the pixel of the larger one
C18_Witness ==
    \E o \in DOMAIN obj :
        /\ JustCalled(o, "draw_frame")
        /\ \E p \in Pixels(obj[o].img_side) :
              /\ InCircleColumn(obj[o].img_side, p[1])
              /\ ~OutsideCircle(obj[o].img_side, p[1], p[2])
              /\ \E y1, y2 \in SourceRows(obj[o].img_side, p[1], p[2]) :
                    /\ y1 < y2
                    /\ obj[o].img[<<p[1], y1>>] # obj[o].img[<<p[1], y2>>]
                    /\ obj[o].circle_img[p] = obj[o].img[<<p[1], y2>>]

ProbeFailed(self, size) == test_font_size(self, rasterizer, size).font = None

FallbackProbes(o) ==
    SubSeq(call[o].search.probes, call[o].search.iterations + 1,
           Len(call[o].search.probes))

\* some probe of the binary search of the call on o loaded and fitted
BinaryFound(o) ==
    \E i \in 1..call[o].search.iterations :
        ProbeFits(prev[o], call[o].search.probes[i])

\* C21: the fallback runs only when no probe of the binary search fitted; it
\* then lowers font_size_guess to max(guess - 20, 20) and probes that size,
\* then 5 less each time, only sizes above 10, stopping at the first size
\* that loads and fits, which is returned; when no size fits it stops at the
\* floor and the call raises.
C21_LinearFallback ==
    \A o \in DOMAIN obj :
        JustCalled(o, "get_fontsize") =>
            LET guess == Val(prev[o].font_size_guess)
                lowered == Max(guess - 20, 20)
                scan == FallbackProbes(o)
            IN  /\ BinaryFound(o) =>
                       /\ scan = <<>>
                       /\ call[o].path = "binary"
                       /\ obj[o].font_size_guess = prev[o].font_size_guess
                /\ ~BinaryFound(o) =>
                       /\ obj[o].font_size_guess = Some(lowered)
                       /\ Len(scan) >= 1
                       /\ \A k \in 1..Len(scan) :
                              /\ scan[k] = lowered - 5 * (k - 1)
                              /\ scan[k] > 10
                              /\ k < Len(scan) => ~ProbeFits(prev[o], scan[k])
                       /\ IF ProbeFits(prev[o], scan[Len(scan)])
                          THEN /\ call[o].path = "fallback"
                               /\ call[o].ret[1] = scan[Len(scan)]
                          ELSE /\ call[o].raised # "None"
                               /\ lowered - 5 * Len(scan) <= 10

\* C21 witness: the fallback probed the three sizes it shares with the window
\* of the binary search, returned the fourth, and left the sizes below it
\* unprobed
C21_Witness ==
    \E o \in DOMAIN obj :
        /\ JustCalled(o, "get_fontsize")
        /\ ~BinaryFound(o)
        /\ Len(FallbackProbes(o)) = 4
        /\ call[o].path = "fallback"
        /\ call[o].ret[1] = FallbackProbes(o)[4]
        /\ call[o].ret[1] - 5 > 10

\* no bounding box can fit the canvas of the object `self`
NoBoxFits(self) == self.img_side <= 2 * self.crop_width_x

\* C22: on an object with img_side <= 2 * crop_width_x, get_fontsize probes
\* no size: create() has failed with a geometry error before the search.
C22_GeometryErrorBeforeSearch ==
    \A o \in DOMAIN obj :
        (JustCalled(o, "get_fontsize") /\ NoBoxFits(prev[o])) =>
            /\ call[o].search.probes = <<>>
            /\ call[o].raised # "None"

\* the brightness draw_frame reads at pixel p of the scaled raster of the
\* object `self`: the green channel
Brightness(self, p) == Green(ScaledImage(self, rasterizer)[p])

\* C23: after draw_frame, for every darkness_threshold in 0..255, each pixel
\* of the thresholded mask is (background_color, 0) when the brightness of
\* the scaled raster there is >= darkness_threshold, and (text_color, 255)
\* when it is below; a pixel as bright as the threshold is background.
C23_ThresholdTotal ==
    \A o \in DOMAIN obj :
        JustCalled(o, "draw_frame") =>
            /\ obj[o].darkness_threshold \in 0..255
            /\ \A p \in Pixels(obj[o].img_side) :
                  /\ Brightness(prev[o], p) >= obj[o].darkness_threshold =>
                         obj[o].img[p] = RGBA(obj[o].background_color, 0)
                  /\ Brightness(prev[o], p) < obj[o].darkness_threshold =>
                         obj[o].img[p] = RGBA(obj[o].text_color, 255)
                  /\ Brightness(prev[o], p) = obj[o].darkness_threshold =>
                         Alpha(obj[o].img[p]) = 0

\* C23 witness: a raster with a pixel exactly as bright as a threshold that
\* is not the default, made background, next to a darker pixel made text
C23_Witness ==
    \E o \in DOMAIN obj :
        /\ JustCalled(o, "draw_frame")
        /\ obj[o].darkness_threshold # DefaultThreshold
        /\ \E p, q \in Pixels(obj[o].img_side) :
              /\ Brightness(prev[o], p) = obj[o].darkness_threshold
              /\ obj[o].img[p] = RGBA(obj[o].background_color, 0)
              /\ Brightness(prev[o], q) < obj[o].darkness_threshold
              /\ obj[o].img[q] = RGBA(obj[o].text_color, 255)

\* C24: with the default darkness_threshold and text_color # background_color,
\* after draw_frame a pixel of the scaled raster that is exactly text_color is
\* opaque text in the mask and one that is exactly background_color is
\* transparent background.
C24_CustomColours ==
    \A o \in DOMAIN obj :
        ( /\ JustCalled(o, "draw_frame")
          /\ obj[o].darkness_threshold = DefaultThreshold
          /\ obj[o].text_color # obj[o].background_color ) =>
            \A p \in Pixels(obj[o].img_side) :
                LET pixel == ScaledImage(prev[o], rasterizer)[p]
                IN  /\ pixel = RGBA(obj[o].text_color, 255) =>
                           obj[o].img[p] = RGBA(obj[o].text_color, 255)
                    /\ pixel = RGBA(obj[o].background_color, 255) =>
                           obj[o].img[p] = RGBA(obj[o].background_color, 0)

\* the pixel is foreground (text_color, alpha 255) or background
\* (background_color, alpha 0) of the object `self`
TwoState(self, pixel) ==
    pixel \in {RGBA(self.text_color, 255), RGBA(self.background_color, 0)}

\* C25: before the flattening every pixel of the thresholded mask, of the
\* circular mask and of the accumulator (from draw_clear through stamp) is
\* (text_color, 255) or (background_color, 0); the accumulator is fully
\* transparent before stamp and stays transparent after stamp wherever no
\* rotation is opaque.
C25_PixelSemantics ==
    \A o \in DOMAIN obj :
        LET N == obj[o].img_side
        IN  /\ pc[o] \in {"draw_frame", "stamp"} =>
                   \A p \in Pixels(N) :
                       /\ TwoState(obj[o], obj[o].img[p])
                       /\ TwoState(obj[o], obj[o].circle_img[p])
            /\ pc[o] \in {"draw_clear", "get_fontsize", "draw_frame", "stamp"} =>
                   \A p \in Pixels(N) : TwoState(obj[o], obj[o].full_image[p])
            /\ pc[o] \in {"draw_clear", "get_fontsize", "draw_frame"} =>
                   \A p \in Pixels(N) : Alpha(obj[o].full_image[p]) = 0
            /\ pc[o] = "stamp" =>
                   \A p \in Pixels(N) :
                       (\A i \in 0..(obj[o].num_rotations - 1) :
                            Alpha(Rotate(obj[o].circle_img, N, i,
                                         obj[o].num_rotations)[p]) = 0) =>
                           Alpha(obj[o].full_image[p]) = 0

\* C26: alpha_to_white maps pixel by pixel: a pixel of full_image with alpha
\* 0 becomes (background_color, 255), and a pixel with another alpha keeps
\* its four channels.
C26_FlattenPerPixel ==
    \A o \in DOMAIN obj :
        JustCalled(o, "alpha_to_white") =>
            \A p \in Pixels(obj[o].img_side) :
                /\ Alpha(prev[o].full_image[p]) = 0 =>
                       obj[o].full_image[p] = RGBA(obj[o].background_color, 255)
                /\ Alpha(prev[o].full_image[p]) # 0 =>
                       obj[o].full_image[p] = prev[o].full_image[p]

\* C26 witness: a first pass over an accumulator with a transparent pixel,
\* now opaque background, and an opaque pixel of a third colour, kept
C26_Witness ==
    \E o \in DOMAIN obj :
        /\ JustCalled(o, "alpha_to_white")
        /\ call[o].nth = 1
        /\ \E p, q \in Pixels(obj[o].img_side) :
              /\ Alpha(prev[o].full_image[p]) = 0
              /\ obj[o].full_image[p] = RGBA(obj[o].background_color, 255)
              /\ prev[o].full_image[q] = RGBA(Red, 255)
              /\ obj[o].full_image[q] = RGBA(Red, 255)

\* C27: a second create() on the same object ends as the first did: the
\* same exception or none, and the same truncated text, font_size_guess,
\* font_size, boundingbox and final image.
C27_CreateTwice ==
    \A o \in DOMAIN obj :
        (JustCalled(o, "create") /\ call[o].nth >= 2) =>
            /\ call[o].raised = call[o].before
            /\ obj[o].illusion_text = prev[o].illusion_text
            /\ obj[o].font_size_guess = prev[o].font_size_guess
            /\ obj[o].font_size = prev[o].font_size
            /\ obj[o].boundingbox = prev[o].boundingbox
            /\ obj[o].full_image = prev[o].full_image

\* C27 witness: the second create() of an object whose text the first one
\* truncated and whose guess the fallback of the first one lowered, with
\* text in the final image
C27_Witness ==
    \E o \in DOMAIN obj :
        /\ JustCalled(o, "create")
        /\ call[o].nth = 2
        /\ call[o].raised = "None"
        /\ Len(obj[o].illusion_text) = obj[o].charmax
        /\ Val(prev[o].font_size_guess) < ClampGuess(RawGuess(prev[o].illusion_text))
        /\ obj[o].font_size # None
        /\ \E p \in Pixels(obj[o].img_side) :
              obj[o].full_image[p] = RGBA(obj[o].text_color, 255)

\* C28 as stated: a get_fontsize call that returns leaves font_size_guess
\* as it was, and a second call right after it returns the same (size,
\* bounding box).
C28_GetFontsizeIdempotent ==
    \A o \in DOMAIN obj :
        (JustCalled(o, "get_fontsize") /\ call[o].raised = "None") =>
            /\ obj[o].font_size_guess = prev[o].font_size_guess
            /\ call[o].nth >= 2 => call[o].ret = call[o].before.ret

\* C28, amended: a get_fontsize call whose binary search found the size
\* leaves font_size_guess as it was, and a call right after it finds the
\* same (size, bounding box), again by the binary search; a call that
\* returns by the fallback leaves font_size_guess at max(guess - 20, 20).
C28_IdempotentAfterBinary ==
    \A o \in DOMAIN obj :
        (JustCalled(o, "get_fontsize") /\ call[o].raised = "None") =>
            /\ call[o].path = "binary" =>
                   obj[o].font_size_guess = prev[o].font_size_guess
            /\ call[o].path = "fallback" =>
                   Val(obj[o].font_size_guess)
                       = Max(Val(prev[o].font_size_guess) - 20, 20)
            /\ (call[o].nth >= 2 /\ call[o].before.path = "binary") =>
                   /\ call[o].ret = call[o].before.ret
                   /\ call[o].path = "binary"
                   /\ obj[o].font_size_guess = prev[o].font_size_guess

\* C28 witness: the second of two calls that both found, by the binary
\* search, a size inside the window
C28_Witness ==
    \E o \in DOMAIN obj :
        /\ JustCalled(o, "get_fontsize")
        /\ call[o].nth = 2
        /\ call[o].raised = "None"
        /\ call[o].before.path = "binary"
        /\ call[o].ret = call[o].before.ret
        /\ call[o].ret[1] < WindowMax(Val(obj[o].font_size_guess))
        /\ call[o].ret[1] > WindowMin(Val(obj[o].font_size_guess))

RotationOrders(n) ==
    {order \in [1..n -> 0..(n - 1)] :
        \A i, j \in 1..n : i # j => order[i] # order[j]}

\* the pixels where some rotation of the circular mask of `self` is opaque
RotatedText(self) ==
    {p \in Pixels(self.img_side) :
        \E i \in 0..(self.num_rotations - 1) :
            Alpha(Rotate(self.circle_img, self.img_side, i,
                         self.num_rotations)[p]) = 255}

====
